---- MODULE Spec2Model ----
(***************************************************************************)
(* Verification model of beam_solver/beamsolve.py: the grid mapper         *)
(* (get_weights, unravel_pix), the equation builder (_mk_eq), system       *)
(* construction (construct_sys), the solver driver (build_solver, solve),  *)
(* the solution evaluator (eval_sol) and the degeneracy removal            *)
(* (remove_degen); and of the residual-subtraction loop of                 *)
(* beam_solver/imaging.py (Subtract.subtract_sources).                     *)
(*                                                                         *)
(* Number representation.  A direction on the sky is a pair of direction   *)
(* cosines (tx, ty) = (kx / BmPix, ky / BmPix) with integer kx, ky, so     *)
(* that the grid coordinate tx * 0.5 * bm_pix + 0.5 * bm_pix of line 121   *)
(* is the exact half-integer (kx + BmPix) / 2.  Fractional parts are kept  *)
(* as numerators over Den and weights as numerators over Den * Den.        *)
(* Rotation angles are multiples of pi/2, with cos and sin taken exactly.  *)
(* The eigenmodes remove_degen reads from U are the columns of a rational  *)
(* orthogonal matrix, kept as integer numerators over one denominator,     *)
(* and the beam it deflates is a grid of numerators over one denominator.  *)
(***************************************************************************)
EXTENDS Integers, Sequences, FiniteSets, TLC

\* Side of the square beam grid (bm_pix of BeamFunc.__init__).
BmPix == 4

\* Denominator of the grid coordinates: the factor 0.5 of get_weights.
Den == 2

\* Python's xrange(4) over the four corners, as positions 1..4.
Corners == 1..4

----------------------------------------------------------------------------
\* Arithmetic helpers

Abs(x) == IF x < 0 THEN -x ELSE x

\* np.floor of the rational a / b, b > 0.
Floor(a, b) == IF a >= 0 THEN a \div b ELSE -((-a + b - 1) \div b)

\* np.clip(v, lo, hi)
Clip(v, lo, hi) == IF v < lo THEN lo ELSE IF v > hi THEN hi ELSE v

----------------------------------------------------------------------------
\* Grid mapper

\* Directions with altitude >= 0: tx^2 + ty^2 = cos(alt)^2 <= 1.
Hemisphere ==
    {d \in (-BmPix..BmPix) \X (-BmPix..BmPix) :
        d[1] * d[1] + d[2] * d[2] <= BmPix * BmPix}

\* Rotation angles theta = q * pi/2 and the flips.
Thetas == 0..3
Flips == {1, -1}

Cos(q) == CASE q = 0 -> 1 [] q = 1 -> 0 [] q = 2 -> -1 [] q = 3 -> 0
Sin(q) == CASE q = 0 -> 0 [] q = 1 -> 1 [] q = 2 -> 0 [] q = 3 -> -1

\* BeamFunc.unravel_pix
unravel_pix(ndim, coord) == (coord[1] * ndim) + coord[2]

\* BeamFunc.rotate_mat applied to a column vector (np.dot).
rotate_mat(theta, v) ==
    <<Cos(theta) * v[1] - Sin(theta) * v[2],
      Sin(theta) * v[1] + Cos(theta) * v[2]>>

\* tx_px, ty_px of get_weights, as numerators over Den.
tx_px(d) == d[1] + BmPix
ty_px(d) == d[2] + BmPix

\* The lower and the clamped upper index along each axis.
tx_px0(d) == Floor(tx_px(d), Den)
tx_px1(d) == Clip(tx_px0(d) + 1, 0, BmPix - 1)
ty_px0(d) == Floor(ty_px(d), Den)
ty_px1(d) == Clip(ty_px0(d) + 1, 0, BmPix - 1)

\* Fractional parts fx, fy, as numerators over Den.
frac_x(d) == tx_px(d) - Den * tx_px0(d)
frac_y(d) == ty_px(d) - Den * ty_px0(d)

\* A corner after rotation and flip of its first component.
Corner(theta, flip, v) ==
    LET r == rotate_mat(theta, v) IN <<flip * r[1], r[2]>>

\* ps of get_weights: [x0y0, x0y1, x1y0, x1y1].
corner_ps(d, theta, flip) ==
    <<Corner(theta, flip, <<tx_px0(d), ty_px0(d)>>),
      Corner(theta, flip, <<tx_px0(d), ty_px1(d)>>),
      Corner(theta, flip, <<tx_px1(d), ty_px0(d)>>),
      Corner(theta, flip, <<tx_px1(d), ty_px1(d)>>)>>

\* A weight list whose last entry is fx * fx instead of fx * fy.
corner_ws_sq(fx, fy) ==
    <<(Den - fx) * (Den - fy), fx * (Den - fy), (Den - fx) * fy, fx * fx>>

\* ws of get_weights: [w0, w1, w2, w3], as numerators over Den * Den.
corner_ws(fx, fy) ==
    <<(Den - fx) * (Den - fy), fx * (Den - fy), (Den - fx) * fy, fx * fy>>

\* BeamFunc.get_weights for one time sample.
get_weights(d, theta, flip) ==
    [ps |-> corner_ps(d, theta, flip), ws |-> corner_ws(frac_x(d), frac_y(d))]

\* The flattened pixel of corner p, as _mk_eq computes it.
corner_pix(ps, p) == unravel_pix(BmPix, ps[p])

----------------------------------------------------------------------------
\* Catalog and call arguments

\* Number of sources (cat.Nsrcs) and of time samples (cat.Nfits).
NSrcs == 2
NFits == 1

Srcs == 0..(NSrcs - 1)
Fits == 0..(NFits - 1)
Pols == {0, 1}
Pixels == 0..(BmPix * BmPix - 1)

\* "No source": the value of an absent source id.
NoSrc == 0 - 1

Classes == {"BeamOnly", "BeamCat", "BeamOnlyCross", "BeamCatCross"}
IsCat(c) == c \in {"BeamCat", "BeamCatCross"}
IsCross(c) == c \in {"BeamOnlyCross", "BeamCatCross"}

\* Observed fluxes: a number or NaN.
NaN == [nan |-> TRUE, v |-> 0]
Flux(v) == [nan |-> FALSE, v |-> v]
isnan(x) == x.nan

\* The observed flux of a sample that is not flagged.
ObsFlux(pol, i, j) == Flux(1 + i + NSrcs * (j + NFits * pol))

\* The direction of source i at time j: the direction d0 of source 0 at
\* time 0, turned by (i + j) quarter turns in azimuth.
RECURSIVE Turn(_, _)
Turn(d, n) == IF n = 0 THEN d ELSE Turn(<<-d[2], d[1]>>, n - 1)

AzAlt(d0) == [s \in Srcs \X Fits |-> Turn(d0, (s[1] + s[2]) % 4)]

\* data_array with at most one flagged sample per polarization; when both
\* polarizations have one it is the same sample.
NoSample == <<NoSrc, 0>>
Flagged == (Srcs \X Fits) \cup {NoSample}
FlaggedPairs(c) ==
    {f \in Flagged \X Flagged :
        IF IsCross(c) THEN f[1] = NoSample \/ f[2] = NoSample \/ f[1] = f[2]
        ELSE f[2] = NoSample}
DataArray(f0, f1) ==
    [pol \in Pols |-> [s \in Srcs \X Fits |->
        IF s = (IF pol = 0 THEN f0 ELSE f1) THEN NaN
        ELSE ObsFlux(pol, s[1], s[2])]]

\* The catalog fluxes of the two polarizations; source z (if any) has
\* catalog flux zero in xx.
CatalogFlux(z) ==
    <<[i \in Srcs |-> IF i = z THEN 0 ELSE i + 2],
      [i \in Srcs |-> i + 2 + NSrcs]>>

\* The bvals keyword: absent, or a beam estimate with one value per pixel.
NoBvals == [given |-> FALSE, v |-> [px \in Pixels |-> 0]]
BvalsChoices == {NoBvals, [given |-> TRUE, v |-> [px \in Pixels |-> px + 1]]}

\* The rotation and flip lists of the two passes: the defaults, another
\* rotation list, another flip list.  A single-polarization class uses the
\* first pass only.
PassChoices(c) ==
    IF IsCross(c)
    THEN {[theta |-> <<(<<0>>), (<<1>>)>>, flip |-> <<(<<1>>), (<<1>>)>>],
          [theta |-> <<(<<0>>), (<<0>>)>>, flip |-> <<(<<1>>), (<<1>>)>>],
          [theta |-> <<(<<0>>), (<<1>>)>>, flip |-> <<(<<1>>), (<<-1>>)>>]}
    ELSE {[theta |-> <<(<<0>>), (<<0>>)>>, flip |-> <<(<<1>>), (<<1>>)>>],
          [theta |-> <<(<<0, 1>>), (<<0>>)>>, flip |-> <<(<<1>>), (<<1>>)>>],
          [theta |-> <<(<<0>>), (<<0>>)>>, flip |-> <<(<<1, -1>>), (<<1>>)>>]}

----------------------------------------------------------------------------
\* Numbers stored as targets: reduced fractions n / d, with d = 0 for the
\* infinity numpy returns on a division by zero.

RECURSIVE Gcd(_, _)
Gcd(a, b) == IF b = 0 THEN a ELSE Gcd(b, a % b)

Num(a) == [n |-> a, d |-> 1]

Quot(a, b) ==
    IF b = 0 THEN [n |-> (IF a > 0 THEN 1 ELSE IF a < 0 THEN -1 ELSE 0), d |-> 0]
    ELSE LET g == Gcd(Abs(a), Abs(b)) IN
         IF g = 0 THEN [n |-> 0, d |-> 1] ELSE [n |-> a \div g, d |-> b \div g]

----------------------------------------------------------------------------
\* Equation builder

\* BeamFunc._mk_key: 'w%d_s%d_t%d' % (pixel, srcid, timeid).
mk_key(pixel, srcid, timeid) == <<pixel, srcid, timeid>>

\* One term of an equation string: <constant> * b<pixel> [* I<source>].
WTerm(pixel, i, j, src) ==
    [kind |-> "w", key |-> mk_key(pixel, i, j), b |-> pixel, I |-> src]
NTerm(coef, pixel) ==
    [kind |-> "n", key |-> <<coef, 0, 0>>, b |-> pixel, I |-> NoSrc]

\* The dict comprehension c of _mk_eq: for a key built by several corners
\* the last corner's weight stays.
mk_consts(ps, ws, i, j) ==
    LET keyOf(p) == mk_key(corner_pix(ps, p), i, j)
        last(k) == CHOOSE p \in Corners :
                      /\ keyOf(p) = k
                      /\ \A q \in Corners : keyOf(q) = k => q <= p
    IN  [k \in {keyOf(p) : p \in Corners} |-> ws[last(k)]]

\* The equation string of BeamFunc._mk_eq.
mk_eq_str(ps, i, j) ==
    [p \in Corners |-> WTerm(corner_pix(ps, p), i, j, NoSrc)]

\* The equation string of BeamCat._mk_eq.
mk_eq_str_cat(ps, i, j) ==
    [p \in Corners |-> WTerm(corner_pix(ps, p), i, j, i)]

\* d[k] = v on a dict, and d.update(c).
Put(d, k, v) == [x \in DOMAIN d \cup {k} |-> IF x = k THEN v ELSE d[x]]
Update(d, c) ==
    [x \in DOMAIN d \cup DOMAIN c |-> IF x \in DOMAIN c THEN c[x] ELSE d[x]]
EmptyDict == [x \in {} |-> 0]

\* bvals[bpix] on the flattened array: a negative index counts from the
\* end, an index outside [-size, size) raises IndexError.
InBvals(bpix) == bpix \in (0 - BmPix * BmPix)..(BmPix * BmPix - 1)
BvalsAt(bv, bpix) == IF bpix >= 0 THEN bv[bpix] ELSE bv[bpix + BmPix * BmPix]

\* The corners whose seed the loop of BeamCat._mk_eq writes: all four, or
\* those before the first corner whose pixel is outside bvals.
seeded_corners(ps) ==
    {p \in Corners : \A q \in Corners : q <= p => InBvals(corner_pix(ps, q))}

\* The seed loop of BeamCat._mk_eq over corners 1..n.
RECURSIVE seed_pix(_, _, _, _)
seed_pix(sd, ps, bv, n) ==
    IF n = 0 THEN sd
    ELSE LET bpix == corner_pix(ps, n)
             prev == seed_pix(sd, ps, bv, n - 1)
         IN  IF n \in seeded_corners(ps)
             THEN Put(prev, <<"b", bpix>>, BvalsAt(bv, bpix))
             ELSE prev

----------------------------------------------------------------------------
\* State

VARIABLES
    wpc,        \* position of the grid-mapper run: "call" or "done"
    wdir,       \* its direction
    wtheta,     \* its rotation
    wflip,      \* its flip
    wps,        \* the corner list it returned
    wws,        \* the weight list it returned
    cls,        \* the class of the solver object
    cat,        \* self.cat: azalt_array and data_array
    args,       \* the arguments of construct_sys
    eqs,        \* self.eqs: equation string -> target
    consts,     \* self.consts: constant key -> weight
    sol_dict,   \* self.sol_dict: unknown -> seed
    ls,         \* self.ls: the system handed to the solver
    pc,         \* "init", "loop", "built", "solved" or "fault"
    pos,        \* loop position of construct_sys
    err,        \* the exception that ended construct_sys, if any
    emitted,    \* history: the _mk_eq calls made so far
    opts,       \* the keyword arguments of the last solve
    epc,        \* position of eval_sol: "idle", "loop" or "done"
    esol,       \* the solution mapping eval_sol was given
    ecover,     \* history: the pixels that solution has a value for
    etodo,      \* the keys the loop of eval_sol has still to visit
    obs_beam,   \* the flat array eval_sol fills
    egrid,      \* the grid eval_sol returned
    fluxvals,   \* the 2 x Nsrcs array BeamCat.eval_sol fills
    fk,         \* the counter k of BeamCat.eval_sol
    ftodo,      \* the keys the loop of BeamCat.eval_sol has still to visit
    dpc,        \* position of remove_degen: "idle", "call", "loop", "done", "fault"
    dS,         \* S of svd: the singular values
    dU,         \* U of svd: numerators num[<<row, mode>>] over den
    dprm,       \* ls.prm_order: name of an unknown -> its row
    dthr,       \* threshold, a fraction n / d
    dbeam,      \* obsbeam: numerators num[<<row, col>>] over den
    dbeam0,     \* history: obsbeam as it was passed
    di,         \* the loop variable i of remove_degen
    derr,       \* the exception that ended remove_degen, if any
    dremoved,   \* history: the modes subtracted so far
    spc,        \* position of subtract_sources: "idle", "call", "loop", "done"
    pflux,      \* its argument pflux
    maxiter,    \* its argument maxiter
    niter,      \* its argument niter, which the loop body increments
    resflux,    \* the residual flux of the last image
    flux0,      \* the residual flux of the image before
    iter_num,   \* the counter the loop condition compares with maxiter
    passes      \* history: the number of passes of the loop body

wvars == <<wpc, wdir, wtheta, wflip, wps, wws>>
cfgvars == <<cls, cat, args>>
sysvars == <<eqs, consts, sol_dict>>
pvars == <<cls, cat, args, eqs, consts, sol_dict, ls, pc, pos, err, emitted, opts>>
evars == <<epc, esol, ecover, etodo, obs_beam, egrid, fluxvals, fk, ftodo>>
dvars == <<dpc, dS, dU, dprm, dthr, dbeam, dbeam0, di, derr, dremoved>>
svars == <<spc, pflux, maxiter, niter, resflux, flux0, iter_num, passes>>
vars == <<wpc, wdir, wtheta, wflip, wps, wws,
          cls, cat, args, eqs, consts, sol_dict, ls, pc, pos, err, emitted, opts,
          epc, esol, ecover, etodo, obs_beam, egrid, fluxvals, fk, ftodo,
          dpc, dS, dU, dprm, dthr, dbeam, dbeam0, di, derr, dremoved,
          spc, pflux, maxiter, niter, resflux, flux0, iter_num, passes>>

\* self.ls = None
NoSolver ==
    [kind |-> "None", eqs |-> EmptyDict, consts |-> EmptyDict, sol0 |-> EmptyDict]

NoOpts == [constrain |-> FALSE, multiply |-> Num(0)]

StartPos(pol) == [pol |-> pol, i |-> 0, ti |-> 1, fi |-> 1, j |-> 0]

\* The object after __init__, with a catalog, before construct_sys.
Constructed ==
    /\ eqs = EmptyDict
    /\ consts = EmptyDict
    /\ sol_dict = EmptyDict
    /\ ls = NoSolver
    /\ pc = "init"
    /\ pos = StartPos(0)
    /\ err = "none"
    /\ emitted = {}
    /\ opts = NoOpts

\* A fixed catalog and untouched system for the runs that exercise one
\* function only.
FixedCall ==
    /\ cat = [azalt |-> AzAlt(<<0, 0>>), data |-> DataArray(NoSample, NoSample)]
    /\ args = [theta |-> <<(<<0>>), (<<0>>)>>, flip |-> <<(<<1>>), (<<1>>)>>,
               catalog_flux |-> CatalogFlux(NoSrc), bvals |-> NoBvals]
    /\ Constructed

FixedObject ==
    /\ cls = "BeamOnly"
    /\ FixedCall

\* np.zeros((bm_pix**2)) and the grid of that shape.
ZeroFlat == [px \in Pixels |-> 0]
GridCells == (0..(BmPix - 1)) \X (0..(BmPix - 1))
ZeroGrid == [rc \in GridCells |-> 0]

\* np.zeros((2, Nsrcs)): row 0 and row 1, one column per source.
FluxCells == (0..1) \X Srcs
ZeroFlux == [rc \in FluxCells |-> 0]

\* No eval_sol call.
IdleE ==
    /\ epc = "idle"
    /\ esol = EmptyDict
    /\ ecover = {}
    /\ etodo = {}
    /\ obs_beam = ZeroFlat
    /\ egrid = ZeroGrid
    /\ fluxvals = ZeroFlux
    /\ fk = 0
    /\ ftodo = {}

\* No remove_degen call.
IdleD ==
    /\ dpc = "idle"
    /\ dS = <<>>
    /\ dU = [num |-> EmptyDict, den |-> 1]
    /\ dprm = EmptyDict
    /\ dthr = Num(0)
    /\ dbeam = [num |-> EmptyDict, den |-> 1]
    /\ dbeam0 = EmptyDict
    /\ di = 0
    /\ derr = "none"
    /\ dremoved = {}

\* No subtract_sources call.
IdleS ==
    /\ spc = "idle"
    /\ pflux = 0
    /\ maxiter = 0
    /\ niter = 0
    /\ resflux = 0
    /\ flux0 = 0
    /\ iter_num = 0
    /\ passes = 0

\* No grid-mapper run.
IdleW ==
    /\ wpc = "idle"
    /\ wdir = <<0, 0>>
    /\ wtheta = 0
    /\ wflip = 1
    /\ wps = <<>>
    /\ wws = <<>>

----------------------------------------------------------------------------
\* The grid mapper applied to every direction, rotation and flip

InitW ==
    /\ wpc = "call"
    /\ wdir \in Hemisphere
    /\ wtheta \in Thetas
    /\ wflip \in Flips
    /\ wps = <<>>
    /\ wws = <<>>
    /\ FixedObject
    /\ IdleE
    /\ IdleD
    /\ IdleS

GetWeights ==
    /\ wpc = "call"
    /\ LET r == get_weights(wdir, wtheta, wflip) IN
        /\ wps' = r.ps
        /\ wws' = r.ws
    /\ wpc' = "done"
    /\ UNCHANGED <<wdir, wtheta, wflip>>
    /\ UNCHANGED <<pvars, evars, dvars, svars>>

NextW == GetWeights

SpecW == InitW /\ [][NextW]_vars

----------------------------------------------------------------------------
\* System construction and solve

\* The default of the multiply keyword of BeamCat.build_solver.
DefaultMultiply == 100

\* The keyword arguments of solve that are tried: none, the constraint with
\* the default multiply, the constraint with multiply = 2.5.
SolveOpts ==
    {[constrain |-> FALSE, multiply |-> Num(DefaultMultiply)],
     [constrain |-> TRUE, multiply |-> Num(DefaultMultiply)],
     [constrain |-> TRUE, multiply |-> Quot(5, 2)]}

\* '%d' % x: the number x = n / d truncated towards zero.
FmtInt(x) == IF x.n >= 0 THEN x.n \div x.d ELSE -((-x.n) \div x.d)

\* The centre pixel of build_solver: int(bm_pix / 2.) on both axes.
center_pix == unravel_pix(BmPix, <<BmPix \div 2, BmPix \div 2>>)

\* The key of the constraint equation: '%d*b%d' % (multiply, centre).
constraint_key(multiply) == <<NTerm(FmtInt(multiply), center_pix)>>

Init ==
    /\ IdleW
    /\ IdleE
    /\ IdleD
    /\ IdleS
    /\ cls \in Classes
    /\ \E d0 \in Hemisphere, f \in FlaggedPairs(cls) :
          cat = [azalt |-> AzAlt(d0), data |-> DataArray(f[1], f[2])]
    /\ \E pc0 \in PassChoices(cls), z \in {NoSrc, 0},
          bv \in (IF IsCat(cls) THEN BvalsChoices ELSE {NoBvals}) :
          args = [theta |-> pc0.theta, flip |-> pc0.flip,
                  catalog_flux |-> CatalogFlux(z), bvals |-> bv]
    /\ Constructed

\* The sample the loops of construct_sys are at.
CurTheta == args.theta[pos.pol + 1][pos.ti]
CurFlip == args.flip[pos.pol + 1][pos.fi]
CurDir == cat.azalt[<<pos.i, pos.j>>]
CurObs == cat.data[pos.pol][<<pos.i, pos.j>>]
CurCatFlux == args.catalog_flux[pos.pol + 1][pos.i]
CurWeights == get_weights(CurDir, CurTheta, CurFlip)

\* The loop nest of construct_sys: sources, rotations, flips, times.
LastOfPass ==
    /\ pos.j = NFits - 1
    /\ pos.fi = Len(args.flip[pos.pol + 1])
    /\ pos.ti = Len(args.theta[pos.pol + 1])
    /\ pos.i = NSrcs - 1

NextPos ==
    IF pos.j < NFits - 1 THEN [pos EXCEPT !.j = pos.j + 1]
    ELSE IF pos.fi < Len(args.flip[pos.pol + 1])
         THEN [pos EXCEPT !.j = 0, !.fi = pos.fi + 1]
    ELSE IF pos.ti < Len(args.theta[pos.pol + 1])
         THEN [pos EXCEPT !.j = 0, !.fi = 1, !.ti = pos.ti + 1]
    ELSE [pos EXCEPT !.j = 0, !.fi = 1, !.ti = 1, !.i = pos.i + 1]

\* The cross classes run a second pass on polarization 1.
Advance ==
    IF ~LastOfPass THEN pc' = "loop" /\ pos' = NextPos
    ELSE IF IsCross(cls) /\ pos.pol = 0 THEN pc' = "loop" /\ pos' = StartPos(1)
    ELSE pc' = "built" /\ pos' = pos

\* construct_sys is called.
ConstructSys ==
    /\ pc = "init"
    /\ pc' = "loop"
    /\ pos' = StartPos(0)
    /\ UNCHANGED <<wvars, evars, dvars, svars, cfgvars, sysvars, ls, err, emitted, opts>>

\* A loop without the np.isnan test: no sample is skipped.
IsSkippedNever(x) == FALSE

\* A sample whose np.isnan test sends the loop to `continue`.
IsSkipped(x) == isnan(x)

\* if np.isnan(I_s): continue
SkipNaN ==
    /\ pc = "loop"
    /\ IsSkipped(CurObs)
    /\ Advance
    /\ UNCHANGED <<wvars, evars, dvars, svars, cfgvars, sysvars, ls, err, emitted, opts>>

\* The target BeamFunc._mk_eq stores, without the division.
mk_target_raw(obs_flux, catalog_flux) == Num(obs_flux)

\* The target BeamFunc._mk_eq stores: obs_flux / catalog_flux.
mk_target(obs_flux, catalog_flux) == Quot(obs_flux, catalog_flux)

\* The target BeamCat._mk_eq stores, with the division of the linear mode.
mk_target_cat_div(obs_flux, catalog_flux) == Quot(obs_flux, catalog_flux)

\* The target BeamCat._mk_eq stores: obs_flux.
mk_target_cat(obs_flux, catalog_flux) == Num(obs_flux)

\* BeamFunc._mk_eq on the current sample.
MkEq ==
    /\ pc = "loop"
    /\ ~IsSkipped(CurObs)
    /\ ~IsCat(cls)
    /\ LET r == CurWeights
           eq == mk_eq_str(r.ps, pos.i, pos.j)
       IN  /\ eqs' = Put(eqs, eq, mk_target(CurObs.v, CurCatFlux))
           /\ consts' = Update(consts, mk_consts(r.ps, r.ws, pos.i, pos.j))
           /\ emitted' = emitted \cup {[pos |-> pos, eq |-> eq]}
    /\ Advance
    /\ UNCHANGED <<wvars, evars, dvars, svars, cfgvars, sol_dict, ls, err, opts>>

\* BeamCat._mk_eq on the current sample, all four pixels inside bvals.
MkEqCat ==
    /\ pc = "loop"
    /\ ~IsSkipped(CurObs)
    /\ IsCat(cls)
    /\ args.bvals.given
    /\ LET r == CurWeights
           eq == mk_eq_str_cat(r.ps, pos.i, pos.j)
       IN  /\ seeded_corners(r.ps) = Corners
           /\ eqs' = Put(eqs, eq, mk_target_cat(CurObs.v, CurCatFlux))
           /\ consts' = Update(consts, mk_consts(r.ps, r.ws, pos.i, pos.j))
           /\ sol_dict' = seed_pix(Put(sol_dict, <<"I", pos.i>>, CurCatFlux),
                                   r.ps, args.bvals.v, 4)
           /\ emitted' = emitted \cup {[pos |-> pos, eq |-> eq]}
    /\ Advance
    /\ UNCHANGED <<wvars, evars, dvars, svars, cfgvars, ls, err, opts>>

\* BeamCat._mk_eq without the bvals keyword: kwargs['bvals'] raises
\* KeyError before anything is stored.
MkEqCatKeyError ==
    /\ pc = "loop"
    /\ ~IsSkipped(CurObs)
    /\ IsCat(cls)
    /\ ~args.bvals.given
    /\ pc' = "fault"
    /\ err' = "KeyError"
    /\ UNCHANGED <<wvars, evars, dvars, svars, cfgvars, sysvars, ls, pos, emitted, opts>>

\* BeamCat._mk_eq with a pixel outside bvals: the equation, the constants
\* and the seeds before that pixel are stored, then bvals[bpix] raises
\* IndexError.
MkEqCatIndexError ==
    /\ pc = "loop"
    /\ ~IsSkipped(CurObs)
    /\ IsCat(cls)
    /\ args.bvals.given
    /\ LET r == CurWeights
           eq == mk_eq_str_cat(r.ps, pos.i, pos.j)
       IN  /\ seeded_corners(r.ps) # Corners
           /\ eqs' = Put(eqs, eq, mk_target_cat(CurObs.v, CurCatFlux))
           /\ consts' = Update(consts, mk_consts(r.ps, r.ws, pos.i, pos.j))
           /\ sol_dict' = seed_pix(Put(sol_dict, <<"I", pos.i>>, CurCatFlux),
                                   r.ps, args.bvals.v, 4)
           /\ emitted' = emitted \cup {[pos |-> pos, eq |-> eq]}
    /\ pc' = "fault"
    /\ err' = "IndexError"
    /\ UNCHANGED <<wvars, evars, dvars, svars, cfgvars, ls, pos, opts>>

\* BeamFunc.build_solver: the keyword arguments are not read.
build_solver_func(constrain, multiply) ==
    /\ eqs' = eqs
    /\ ls' = [kind |-> "LinearSolver", eqs |-> eqs, consts |-> consts,
              sol0 |-> EmptyDict]

\* BeamCat.build_solver handing the solver no seed table.
build_solver_cat_noseed(constrain, multiply) ==
    /\ eqs' = IF constrain THEN Put(eqs, constraint_key(multiply), multiply)
              ELSE eqs
    /\ ls' = [kind |-> "LinProductSolver", eqs |-> eqs', consts |-> consts,
              sol0 |-> EmptyDict]

\* BeamCat.build_solver
build_solver_cat(constrain, multiply) ==
    /\ eqs' = IF constrain THEN Put(eqs, constraint_key(multiply), multiply)
              ELSE eqs
    /\ ls' = [kind |-> "LinProductSolver", eqs |-> eqs', consts |-> consts,
              sol0 |-> sol_dict]

\* BeamOnly.solve, BeamOnlyCross.solve: build_solver, then the linear solve.
SolveLinear ==
    /\ pc \in {"built", "solved"}
    /\ ~IsCat(cls)
    /\ \E o \in SolveOpts :
          /\ build_solver_func(o.constrain, o.multiply)
          /\ opts' = o
    /\ pc' = "solved"
    /\ UNCHANGED <<wvars, evars, dvars, svars, cfgvars, consts, sol_dict, pos, err, emitted>>

\* BeamCat.solve, BeamCatCross.solve: build_solver, then the iterative solve.
SolveJoint ==
    /\ pc \in {"built", "solved"}
    /\ IsCat(cls)
    /\ \E o \in SolveOpts :
          /\ build_solver_cat(o.constrain, o.multiply)
          /\ opts' = o
    /\ pc' = "solved"
    /\ UNCHANGED <<wvars, evars, dvars, svars, cfgvars, consts, sol_dict, pos, err, emitted>>

Next ==
    \/ ConstructSys
    \/ SkipNaN
    \/ MkEq
    \/ MkEqCat
    \/ MkEqCatKeyError
    \/ MkEqCatIndexError
    \/ SolveLinear
    \/ SolveJoint

Spec == Init /\ [][Next]_vars

----------------------------------------------------------------------------
\* Solution evaluator.  The names of the unknowns are strings, kept as
\* sequences of characters.

DigitChars == <<"0", "1", "2", "3", "4", "5", "6", "7", "8", "9">>
DigitVal(c) == (CHOOSE d \in 1..10 : DigitChars[d] = c) - 1

\* '%d' % n
RECURSIVE FmtNat(_)
FmtNat(n) ==
    IF n < 10 THEN <<DigitChars[n + 1]>>
    ELSE Append(FmtNat(n \div 10), DigitChars[(n % 10) + 1])
FmtD(n) == IF n < 0 THEN <<"-">> \o FmtNat(-n) ELSE FmtNat(n)

\* The names 'b%d' % pixel and 'I%d' % source of the unknowns.
BeamName(px) == <<"b">> \o FmtD(px)
FluxName(i) == <<"I">> \o FmtD(i)

\* key.strip(ch)
RECURSIVE LStrip(_, _)
LStrip(s, ch) ==
    IF Len(s) > 0 /\ s[1] = ch THEN LStrip(Tail(s), ch) ELSE s
RECURSIVE RStrip(_, _)
RStrip(s, ch) ==
    IF Len(s) > 0 /\ s[Len(s)] = ch THEN RStrip(SubSeq(s, 1, Len(s) - 1), ch)
    ELSE s
Strip(s, ch) == RStrip(LStrip(s, ch), ch)

\* int(s) on an optional sign followed by digits.
RECURSIVE ParseNat(_)
ParseNat(s) ==
    IF Len(s) = 0 THEN 0
    ELSE 10 * ParseNat(SubSeq(s, 1, Len(s) - 1)) + DigitVal(s[Len(s)])
ParseInt(s) == IF s[1] = "-" THEN 0 - ParseNat(Tail(s)) ELSE ParseNat(s)

\* The pixel read from the last character of the key only.
key_pixel_last(key) == ParseInt(<<key[Len(key)]>>)

\* px = int(key.strip('b'))
key_pixel(key) == ParseInt(Strip(key, "b"))

\* obs_beam.shape = (bm_pix, bm_pix): row-major.
reshape(flat) == [rc \in GridCells |-> flat[rc[1] * BmPix + rc[2]]]

\* The solved values: one per unknown.
BeamVal(px) == px + 1
FluxVal(i) == 0 - (i + 1)

\* Largest number of keys of a solution mapping.
MaxKeys == 2

\* The solution mappings: some beam pixels and some source fluxes.
Solution(P, F) ==
    [k \in {BeamName(px) : px \in P} \cup {FluxName(i) : i \in F} |->
        IF k[1] = "b" THEN BeamVal(CHOOSE px \in P : BeamName(px) = k)
        ELSE FluxVal(CHOOSE i \in F : FluxName(i) = k)]

\* The sets of at most n elements of S.
RECURSIVE UpTo(_, _)
UpTo(S, n) ==
    IF n = 0 THEN {{}}
    ELSE LET prev == UpTo(S, n - 1) IN prev \cup {s \cup {x} : s \in prev, x \in S}

\* The classes whose eval_sol is run: the beam-only one returns the grid,
\* the joint one goes on to the flux array.
EvalClasses == {"BeamOnly", "BeamCat"}

\* The solutions tried: at most MaxKeys unknowns, beam pixels and fluxes.
Unknowns == {<<"b", px>> : px \in Pixels} \cup {<<"I", i>> : i \in Srcs}

InitE ==
    /\ IdleW
    /\ IdleD
    /\ IdleS
    /\ cls \in EvalClasses
    /\ FixedCall
    /\ epc = "call"
    /\ \E U \in UpTo(Unknowns, MaxKeys) :
          /\ ecover = {u[2] : u \in {x \in U : x[1] = "b"}}
          /\ esol = Solution(ecover, {u[2] : u \in {x \in U : x[1] = "I"}})
    /\ etodo = {}
    /\ obs_beam = ZeroFlat
    /\ egrid = ZeroGrid
    /\ fluxvals = ZeroFlux
    /\ fk = 0
    /\ ftodo = {}

\* eval_sol(sol) is called: a new array of zeros, the loop over sol.keys().
EvalSol ==
    /\ epc = "call"
    /\ etodo' = DOMAIN esol
    /\ obs_beam' = ZeroFlat
    /\ epc' = "loop"
    /\ UNCHANGED <<wvars, pvars, dvars, svars, esol, ecover, egrid, fluxvals, fk, ftodo>>

\* One pass of the loop, on a key with key[0] == 'b'.
EvalBeamKey ==
    /\ epc = "loop"
    /\ \E key \in etodo :
          /\ key[1] = "b"
          /\ key_pixel(key) \in Pixels
          /\ obs_beam' = [obs_beam EXCEPT ![key_pixel(key)] = esol[key]]
          /\ etodo' = etodo \ {key}
    /\ UNCHANGED <<wvars, pvars, dvars, svars, epc, esol, ecover, egrid, fluxvals, fk, ftodo>>

\* One pass of the loop, on any other key.
EvalOtherKey ==
    /\ epc = "loop"
    /\ \E key \in etodo :
          /\ key[1] # "b"
          /\ etodo' = etodo \ {key}
    /\ UNCHANGED <<wvars, pvars, dvars, svars, epc, esol, ecover, obs_beam, egrid, fluxvals, fk, ftodo>>

\* The loop is over: reshape and return.  BeamCat.eval_sol has called
\* this on sol[1] and goes on with a new array of zeros, k = 0 and a second
\* loop over sol[1].keys().
EvalReturn ==
    /\ epc = "loop"
    /\ etodo = {}
    /\ egrid' = reshape(obs_beam)
    /\ IF IsCat(cls)
          THEN /\ epc' = "flux"
               /\ fluxvals' = ZeroFlux
               /\ fk' = 0
               /\ ftodo' = DOMAIN esol
          ELSE /\ epc' = "done"
               /\ UNCHANGED <<fluxvals, fk, ftodo>>
    /\ UNCHANGED <<wvars, pvars, dvars, svars, esol, ecover, etodo, obs_beam>>

\* The source number written without the shift by one.
flux_id_raw(key) == ParseInt(Tail(key))

\* int(key[1::]) + 1
flux_id(key) == ParseInt(Tail(key)) + 1

\* One pass of the flux loop, on a key with key[0] == 'I': column k takes
\* the source number and the solved flux, and k moves on.  The keys come in
\* the order of the mapping, which is any order.
EvalFluxKey ==
    /\ epc = "flux"
    /\ \E key \in ftodo :
          /\ key[1] = "I"
          /\ fk \in Srcs
          /\ fluxvals' = [fluxvals EXCEPT ![<<0, fk>>] = flux_id(key),
                                          ![<<1, fk>>] = esol[key]]
          /\ fk' = fk + 1
          /\ ftodo' = ftodo \ {key}
    /\ UNCHANGED <<wvars, pvars, dvars, svars, epc, esol, ecover, etodo, obs_beam, egrid>>

\* One pass of the flux loop, on any other key.
EvalFluxOther ==
    /\ epc = "flux"
    /\ \E key \in ftodo :
          /\ key[1] # "I"
          /\ ftodo' = ftodo \ {key}
    /\ UNCHANGED <<wvars, pvars, dvars, svars, epc, esol, ecover, etodo, obs_beam, egrid,
                   fluxvals, fk>>

\* return fluxvals, obs_beam
EvalFluxReturn ==
    /\ epc = "flux"
    /\ ftodo = {}
    /\ epc' = "done"
    /\ UNCHANGED <<wvars, pvars, dvars, svars, esol, ecover, etodo, obs_beam, egrid,
                   fluxvals, fk, ftodo>>

NextE ==
    \/ EvalSol
    \/ EvalBeamKey
    \/ EvalOtherKey
    \/ EvalReturn
    \/ EvalFluxKey
    \/ EvalFluxOther
    \/ EvalFluxReturn

SpecE == InitE /\ [][NextE]_vars

----------------------------------------------------------------------------
\* Degeneracy removal.  remove_degen reads U and S from np.linalg.svd of
\* AtA and the rows of the unknowns from ls.prm_order.

\* Number of unknowns of the solved system: the size of S and of U.
NPar == 3

\* Largest singular value tried.
MaxS == 2

\* xrange(len(S))
Modes == 0..(NPar - 1)

\* The default of the threshold keyword: 5e-4.
DefaultThreshold == [n |-> 5, d |-> 10000]

\* sum(S)
RECURSIVE SeqSum(_)
SeqSum(sq) == IF Len(sq) = 0 THEN 0 ELSE Head(sq) + SeqSum(Tail(sq))

\* sorted(S, reverse=True)
RECURSIVE sorted_reverse(_)
sorted_reverse(sq) ==
    IF Len(sq) = 0 THEN <<>>
    ELSE LET m == CHOOSE k \in 1..Len(sq) : \A l \in 1..Len(sq) : sq[k] >= sq[l]
         IN  <<sq[m]>> \o
             sorted_reverse(SubSeq(sq, 1, m - 1) \o SubSeq(sq, m + 1, Len(sq)))

\* The share of mode i as a fraction of one, without the factor 100.
var_exp_frac(S, i) == [n |-> sorted_reverse(S)[i + 1], d |-> SeqSum(S)]

\* var_exp[i] = (S_i / total) * 100, a fraction; d = 0 is the nan of 0 / 0.
var_exp(S, i) == [n |-> 100 * sorted_reverse(S)[i + 1], d |-> SeqSum(S)]

\* x < t on fractions; a comparison with nan is False.
Less(x, t) == x.d > 0 /\ x.n * t.d < t.n * x.d

\* np.where(var_exp < threshold)[0]
below(S, thr) == {i \in 0..(Len(S) - 1) : Less(var_exp(S, i), thr)}

\* The result that stands for the IndexError of [0] on an empty array.
NoMode == 0 - 1

\* The first index, and index 0 when there is none.
cutoff_mode_zero(W) ==
    IF W = {} THEN 0 ELSE CHOOSE i \in W : \A k \in W : i <= k

\* cutoff_mode = np.where(...)[0][0]
cutoff_mode(W) ==
    IF W = {} THEN NoMode ELSE CHOOSE i \in W : \A k \in W : i <= k

\* np.sum over a grid.
RECURSIVE SumOver(_, _)
SumOver(g, cells) ==
    IF cells = {} THEN 0
    ELSE LET x == CHOOSE y \in cells : TRUE IN g[x] + SumOver(g, cells \ {x})
np_sum(g) == SumOver(g, DOMAIN g)

\* obsbeam * emode, element by element.
times(g, h) == [rc \in DOMAIN g |-> g[rc] * h[rc]]

\* emode of line 229: the entry of column i of U at the row of b<px> for the
\* pixels prm_order has, 0 for the others, reshaped to the grid.
emode(U, prm, i) ==
    reshape([px \in Pixels |->
                IF BeamName(px) \in DOMAIN prm THEN U.num[<<prm[BeamName(px)], i>>]
                ELSE 0])

\* The update of line 231 with the sign turned.
deflate_plus(b, e, D) ==
    [num |-> [rc \in DOMAIN b.num |->
                 D * D * b.num[rc] + np_sum(times(b.num, e)) * e[rc]],
     den |-> b.den * D * D]

\* obsbeam -= np.sum(obsbeam * emode) * emode.conj(), for the beam b.num /
\* b.den and the real mode e / D.
deflate(b, e, D) ==
    [num |-> [rc \in DOMAIN b.num |->
                 D * D * b.num[rc] - np_sum(times(b.num, e)) * e[rc]],
     den |-> b.den * D * D]

\* The matrices U tried: the reflections I - 2 v v^T / (v.v), which are
\* orthogonal with rational entries.
HouseVecs ==
    {v \in [Modes -> 0..2] : SumOver([r \in Modes |-> v[r] * v[r]], Modes) \in 1..6}
Householder(v) ==
    LET D == SumOver([r \in Modes |-> v[r] * v[r]], Modes) IN
    [num |-> [rc \in Modes \X Modes |->
                 (IF rc[1] = rc[2] THEN D ELSE 0) - 2 * v[rc[1]] * v[rc[2]]],
     den |-> D]

\* The vectors S tried: non-negative, in descending order.
SingularValues ==
    {sq \in [1..NPar -> 0..MaxS] : \A k \in 1..(NPar - 1) : sq[k] >= sq[k + 1]}

\* The thresholds tried, in percent: the default and one half.
Thresholds == {DefaultThreshold, Num(50)}

\* The maps prm_order tried: row r belongs to the pixel r * (bm_pix + 1) -
\* shift, which for shift 1 gives row 0 the name b-1 of no grid pixel.
PrmOrder(shift) ==
    [k \in {BeamName(r * (BmPix + 1) - shift) : r \in Modes} |->
        CHOOSE r \in Modes : BeamName(r * (BmPix + 1) - shift) = k]

\* The beams tried.
Beam(slope) == [rc \in GridCells |-> 1 + ((rc[1] * slope + rc[2]) % 3)]

InitD ==
    /\ IdleW
    /\ IdleE
    /\ IdleS
    /\ FixedObject
    /\ dpc = "call"
    /\ dS \in SingularValues
    /\ \E v \in HouseVecs : dU = Householder(v)
    /\ \E shift \in 0..1 : dprm = PrmOrder(shift)
    /\ dthr \in Thresholds
    /\ \E slope \in 0..1 : dbeam0 = Beam(slope)
    /\ dbeam = [num |-> dbeam0, den |-> 1]
    /\ di = 0
    /\ derr = "none"
    /\ dremoved = {}

\* remove_degen up to its loop: the cutoff mode, or the IndexError of
\* [0][0] when no mode is below the threshold.
RemoveDegen ==
    /\ dpc = "call"
    /\ LET c == cutoff_mode(below(dS, dthr)) IN
          IF c = NoMode
          THEN /\ dpc' = "fault"
               /\ derr' = "IndexError"
               /\ di' = di
          ELSE /\ dpc' = "loop"
               /\ derr' = derr
               /\ di' = c
    /\ UNCHANGED <<wvars, pvars, evars, svars, dS, dU, dprm, dthr, dbeam, dbeam0, dremoved>>

\* One pass of for i in xrange(cutoff_mode, len(S)).
DeflateMode ==
    /\ dpc = "loop"
    /\ di < Len(dS)
    /\ dbeam' = deflate(dbeam, emode(dU, dprm, di), dU.den)
    /\ dremoved' = dremoved \cup {di}
    /\ di' = di + 1
    /\ UNCHANGED <<wvars, pvars, evars, svars, dpc, dS, dU, dprm, dthr, dbeam0, derr>>

\* return obsbeam
DegenReturn ==
    /\ dpc = "loop"
    /\ di >= Len(dS)
    /\ dpc' = "done"
    /\ UNCHANGED <<wvars, pvars, evars, svars, dS, dU, dprm, dthr, dbeam, dbeam0, di, derr,
                   dremoved>>

NextD == RemoveDegen \/ DeflateMode \/ DegenReturn

SpecD == InitD /\ [][NextD]_vars

----------------------------------------------------------------------------
\* Residual subtraction (imaging.py).  The imaging calls of the loop body
\* are seen through the one value they produce: the residual flux that
\* et.get_flux reads from the new image, which can be any value.

\* Largest maxiter tried.
MaxMaxiter == 3

\* Largest residual flux the imaging step returns, in absolute value.
MaxFlux == 3

\* Number of passes of the loop body that are followed.
MaxPasses == 5

\* The values stats['gauss_tflux'] can take.
FluxValues == (0 - MaxFlux)..MaxFlux

\* The values of pflux tried.
PeakFluxes == {1, 20}

InitS ==
    /\ IdleW
    /\ IdleE
    /\ IdleD
    /\ FixedObject
    /\ spc = "call"
    /\ pflux \in PeakFluxes
    /\ maxiter \in 1..MaxMaxiter
    /\ niter = 0
    /\ resflux = 0
    /\ flux0 = 0
    /\ iter_num = 0
    /\ passes = 0

\* The condition of the while loop:
\* |resflux| > 1/10. * |pflux| and |resflux| <= |flux0| and iter_num < maxiter.
while_cond ==
    /\ 10 * Abs(resflux) > Abs(pflux)
    /\ Abs(resflux) <= Abs(flux0)
    /\ iter_num < maxiter

\* subtract_sources up to its loop: the first image, resflux from it,
\* flux0 = resflux, iter_num = 1.
SubtractSources ==
    /\ spc = "call"
    /\ \E f \in FluxValues :
          /\ resflux' = f
          /\ flux0' = f
    /\ iter_num' = 1
    /\ spc' = "loop"
    /\ UNCHANGED <<wvars, pvars, evars, dvars, pflux, maxiter, niter, passes>>

\* One pass of the loop body: the model is subtracted, a new image is made,
\* flux0 takes the old residual, resflux the new one, and niter is
\* incremented; iter_num is not assigned.
SubtractPass ==
    /\ spc = "loop"
    /\ while_cond
    /\ passes < MaxPasses
    /\ flux0' = resflux
    /\ \E f \in FluxValues : resflux' = f
    /\ niter' = niter + 1
    /\ passes' = passes + 1
    /\ UNCHANGED <<wvars, pvars, evars, dvars, spc, pflux, maxiter, iter_num>>

\* The loop condition is false: subtract_sources returns.
SubtractReturn ==
    /\ spc = "loop"
    /\ ~while_cond
    /\ spc' = "done"
    /\ UNCHANGED <<wvars, pvars, evars, dvars, pflux, maxiter, niter, resflux, flux0,
                   iter_num, passes>>

NextS == SubtractSources \/ SubtractPass \/ SubtractReturn

SpecS == InitS /\ [][NextS]_vars

----------------------------------------------------------------------------
\* C1: every corner returned by get_weights has both coordinates inside
\* [0, bm_pix - 1] and a flattened pixel index in [0, bm_pix^2).
C1_PixelInRange ==
    wpc = "done" =>
        \A p \in Corners :
            /\ wps[p][1] \in 0..(BmPix - 1)
            /\ wps[p][2] \in 0..(BmPix - 1)
            /\ corner_pix(wps, p) \in 0..(BmPix * BmPix - 1)

\* C2: the four weights are non-negative and add up to one.
C2_WeightsSumToOne ==
    wpc = "done" =>
        /\ \A p \in Corners : wws[p] >= 0
        /\ wws[1] + wws[2] + wws[3] + wws[4] = Den * Den

\* A direction strictly inside a cell on both axes: all four weights positive.
C2_Witness ==
    /\ wpc = "done"
    /\ frac_x(wdir) > 0
    /\ frac_y(wdir) > 0
    /\ \A p \in Corners : wws[p] > 0

\* C3: the weight at position p is the bilinear weight of the corner at
\* position p: (x0,y0) (1-fx)(1-fy), (x0,y1) (1-fx)fy, (x1,y0) fx(1-fy),
\* (x1,y1) fx*fy.
C3_WeightMatchesCorner ==
    wpc = "done" =>
        LET fx == frac_x(wdir)
            fy == frac_y(wdir)
        IN  /\ wws[1] = (Den - fx) * (Den - fy)
            /\ wws[2] = (Den - fx) * fy
            /\ wws[3] = fx * (Den - fy)
            /\ wws[4] = fx * fy

----------------------------------------------------------------------------
\* Vocabulary of the statements about the accumulated system

\* The polarizations construct_sys of this class reads.
PassesUsed == IF IsCross(cls) THEN {0, 1} ELSE {0}

\* Every loop position of the pass on polarization pol.
AllPositions(pol) ==
    {[pol |-> pol, i |-> i, ti |-> t, fi |-> f, j |-> j] :
        i \in Srcs, t \in 1..Len(args.theta[pol + 1]),
        f \in 1..Len(args.flip[pol + 1]), j \in Fits}

ObsAt(q) == cat.data[q.pol][<<q.i, q.j>>]

\* The equations emitted from samples, as opposed to the constraint.
IsSampleEq(k) == \A p \in DOMAIN k : k[p].kind = "w"
SampleEqs(d) == {k \in DOMAIN d : IsSampleEq(k)}
ConstraintEqs(d) == {k \in DOMAIN d : ~IsSampleEq(k)}

\* Equation k names sample (i, j).
RefersTo(k, i, j) ==
    \E p \in DOMAIN k : k[p].kind = "w" /\ k[p].key[2] = i /\ k[p].key[3] = j

\* The number t is the quotient a / b (infinite when b = 0).
IsQuotient(t, a, b) ==
    IF b = 0 THEN t.d = 0 ELSE t.d # 0 /\ t.n * b = a * t.d

\* C4: nothing in the accumulated system comes from a sample whose observed
\* flux is NaN: no _mk_eq call is made for it, every stored equation,
\* constant and seed comes from a call made for a non-NaN sample, a sample
\* flagged in every polarization read is named by no equation and no
\* constant; no exception is raised at a NaN sample, and when construct_sys
\* returns every non-NaN sample has been processed.
C4_NaNSamplesSkipped ==
    /\ \A e \in emitted : ~isnan(ObsAt(e.pos))
    /\ SampleEqs(eqs) \subseteq {e.eq : e \in emitted}
    /\ \A c \in DOMAIN consts :
          \E e \in emitted : \E p \in Corners : e.eq[p].key = c
    /\ \A u \in DOMAIN sol_dict :
          \E e \in emitted :
             \/ u = <<"I", e.pos.i>>
             \/ \E p \in Corners : u = <<"b", e.eq[p].b>>
    /\ \A s \in Srcs \X Fits :
          (\A pol \in PassesUsed : isnan(cat.data[pol][s])) =>
             /\ \A k \in DOMAIN eqs : ~RefersTo(k, s[1], s[2])
             /\ \A c \in DOMAIN consts : ~(c[2] = s[1] /\ c[3] = s[2])
    /\ pc = "fault" => ~isnan(CurObs)
    /\ pc \in {"built", "solved"} =>
          \A pol \in PassesUsed : \A q \in AllPositions(pol) :
             ~isnan(ObsAt(q)) => \E e \in emitted : e.pos = q

\* construct_sys has returned, the first sample was NaN and a later sample
\* of the same pass was turned into an equation.
C4_Witness ==
    /\ pc = "built"
    /\ isnan(cat.data[0][<<0, 0>>])
    /\ \E e \in emitted : e.pos.pol = 0 /\ e.pos.i > 0
    /\ eqs # EmptyDict

\* C5: in beam-only mode every stored equation has exactly four terms, each
\* a weight constant keyed by (pixel, i, j) times the beam unknown of that
\* same pixel, with no flux unknown, and its target is observed flux over
\* catalog flux of a sample (i, j) that is not NaN; every equation emitted
\* is stored.
C5_BeamOnlyEquation ==
    ~IsCat(cls) =>
        /\ \A e \in emitted : e.eq \in DOMAIN eqs
        /\ \A k \in DOMAIN eqs :
              /\ Len(k) = 4
              /\ \E i \in Srcs, j \in Fits :
                    /\ \A p \in Corners :
                          /\ k[p].kind = "w"
                          /\ k[p].key = <<k[p].b, i, j>>
                          /\ k[p].I = NoSrc
                          /\ k[p].key \in DOMAIN consts
                    /\ \E pol \in PassesUsed :
                          /\ ~isnan(cat.data[pol][<<i, j>>])
                          /\ IsQuotient(eqs[k], cat.data[pol][<<i, j>>].v,
                                        args.catalog_flux[pol + 1][i])

\* A beam-only system is built and holds a target that is a proper fraction
\* of observed over catalog flux.
C5_Witness ==
    /\ pc = "built"
    /\ ~IsCat(cls)
    /\ \E k \in DOMAIN eqs : eqs[k].d > 1

\* C6: in joint mode every equation stored from a sample has exactly four
\* terms, each a weight constant keyed by (pixel, i, j) times the beam
\* unknown of that pixel times the flux unknown of source i, and its target
\* is the raw observed flux of a sample (i, j) that is not NaN; every
\* equation emitted is stored.
C6_JointEquation ==
    IsCat(cls) =>
        /\ \A e \in emitted : e.eq \in DOMAIN eqs
        /\ \A k \in SampleEqs(eqs) :
              /\ Len(k) = 4
              /\ \E i \in Srcs, j \in Fits :
                    /\ \A p \in Corners :
                          /\ k[p].key = <<k[p].b, i, j>>
                          /\ k[p].I = i
                          /\ k[p].key \in DOMAIN consts
                    /\ \E pol \in PassesUsed :
                          /\ ~isnan(cat.data[pol][<<i, j>>])
                          /\ eqs[k].d = 1
                          /\ eqs[k].n = cat.data[pol][<<i, j>>].v

\* A joint system is built from a sample whose catalog flux is neither 0
\* nor 1, so that dividing by it would change the target.
C6_Witness ==
    /\ pc = "built"
    /\ IsCat(cls)
    /\ \E e \in emitted : args.catalog_flux[e.pos.pol + 1][e.pos.i] > 1

\* C7: a solve with the constraint option hands the solver exactly one
\* extra equation, multiply * b<centre> = multiply, in the linear and in
\* the joint mode.
C7_ConstraintEquation ==
    (pc = "solved" /\ opts.constrain) =>
        /\ Cardinality(ConstraintEqs(ls.eqs)) = 1
        /\ \A k \in ConstraintEqs(ls.eqs) :
              /\ Len(k) = 1
              /\ k[1].b = center_pix
              /\ Num(k[1].key[1]) = opts.multiply
              /\ ls.eqs[k] = opts.multiply

\* C10: the grid eval_sol returns holds, in cell (row, col), the solved
\* value of b<row * bm_pix + col> for every pixel the solution covers and 0
\* for every other pixel, whatever other keys the solution has; every index
\* the loop writes at is inside the array.
C10_EvalGrid ==
    /\ \A key \in etodo : key[1] = "b" => key_pixel(key) \in Pixels
    /\ epc = "done" =>
          \A row \in 0..(BmPix - 1), col \in 0..(BmPix - 1) :
              egrid[<<row, col>>] =
                  IF (row * BmPix + col) \in ecover
                  THEN BeamVal(row * BmPix + col) ELSE 0

\* eval_sol has returned for a solution with a flux key and one beam key,
\* of a pixel off the diagonal whose index has two digits.
C10_Witness ==
    /\ epc = "done"
    /\ \E px \in ecover : px >= 10 /\ px \div BmPix # px % BmPix
    /\ \E k \in DOMAIN esol : k[1] = "I"
    /\ Cardinality(ecover) < BmPix * BmPix

----------------------------------------------------------------------------
\* The sources the solution given to eval_sol has a flux key for.
FluxSrcs == {s \in Srcs : FluxName(s) \in DOMAIN esol}

\* C11: BeamCat.eval_sol puts the solved flux of source s at the position s
\* of the flux vector, whatever the order of the keys, also when another
\* source has no flux key.
C11_FluxAtSourceId ==
    (epc = "done" /\ IsCat(cls)) =>
        \A s \in FluxSrcs : fluxvals[<<1, s>>] = FluxVal(s)

\* C11, as the code has it: BeamCat.eval_sol fills the columns of a
\* 2 x Nsrcs array in the order the flux keys are met; every source with a
\* flux key has one column among the first ones, holding its number plus one
\* in row 0 and its solved flux in row 1, and the columns after them stay
\* zero.
C11_FluxColumns ==
    (epc = "done" /\ IsCat(cls)) =>
        /\ fk = Cardinality(FluxSrcs)
        /\ \A s \in FluxSrcs :
              \E c \in Srcs :
                  /\ c < fk
                  /\ fluxvals[<<0, c>>] = s + 1
                  /\ fluxvals[<<1, c>>] = FluxVal(s)
        /\ \A c \in Srcs :
              c >= fk => (fluxvals[<<0, c>>] = 0 /\ fluxvals[<<1, c>>] = 0)

\* The joint eval_sol has returned and the first column holds a source
\* other than source 0.
C11_Witness ==
    /\ epc = "done"
    /\ IsCat(cls)
    /\ fk >= 1
    /\ fluxvals[<<0, 0>>] > 1
    /\ fluxvals[<<1, 0>>] = FluxVal(fluxvals[<<0, 0>>] - 1)

\* The catalog flux construct_sys is given for the sample at position q.
CatFluxAt(q) == args.catalog_flux[q.pol + 1][q.i]

\* C12: in beam-only mode a catalog flux of zero for a source with a non-NaN
\* sample ends construct_sys in a division fault: construct_sys does not
\* return normally and no equation whose target was computed from the zero
\* flux is stored; the joint mode does not divide and stores the observed
\* flux as it is.
C12_ZeroFluxFaults ==
    /\ ~IsCat(cls) =>
          /\ \A k \in DOMAIN eqs : eqs[k].d # 0
          /\ pc \in {"built", "solved"} =>
                \A pol \in PassesUsed : \A q \in AllPositions(pol) :
                    ~isnan(ObsAt(q)) => CatFluxAt(q) # 0
    /\ IsCat(cls) =>
          \A k \in SampleEqs(eqs) : eqs[k].d = 1

----------------------------------------------------------------------------
\* Vocabulary of the statements about remove_degen

\* The modes whose share 100 * S_i / sum(S) is below the threshold, written
\* out on the values of S.
ModesBelow ==
    {i \in 0..(Len(dS) - 1) :
        SeqSum(dS) > 0 /\ 100 * dS[i + 1] * dthr.d < dthr.n * SeqSum(dS)}

\* The beam is, value by value, the one that was passed.
BeamUntouched == \A rc \in GridCells : dbeam.num[rc] = dbeam0[rc] * dbeam.den

\* The eigenmodes subtracted, as grids with zeros at the pixels prm_order
\* does not have, are orthonormal.
RemovedOrthonormal ==
    \A i \in dremoved, k \in dremoved :
        np_sum(times(emode(dU, dprm, i), emode(dU, dprm, k))) =
            (IF i = k THEN dU.den * dU.den ELSE 0)

\* C13: when no eigenmode has 100 * S_i / sum(S) below the threshold,
\* remove_degen ends in a lookup error (IndexError) and the beam that was
\* passed is left as it was; it ends that way in no other case.
C13_NoCutoffFaults ==
    /\ ModesBelow = {} =>
          /\ dpc \in {"idle", "call", "fault"}
          /\ BeamUntouched
          /\ dremoved = {}
    /\ dpc = "fault" =>
          /\ ModesBelow = {}
          /\ derr = "IndexError"
          /\ BeamUntouched

\* remove_degen has failed on singular values that are not all zero, none
\* of them with a share below the threshold.
C13_Witness ==
    /\ dpc = "fault"
    /\ derr = "IndexError"
    /\ SeqSum(dS) > 0
    /\ \E rc \in GridCells : dbeam0[rc] # 0

\* C14: when remove_degen has returned and the modes it removed are
\* orthonormal, the projection of the returned beam onto every removed mode
\* is zero.
C14_ProjectionsZero ==
    (dpc = "done" /\ RemovedOrthonormal) =>
        \A i \in dremoved : np_sum(times(dbeam.num, emode(dU, dprm, i))) = 0

\* remove_degen has returned after removing two orthonormal modes, one of
\* them spread over two pixels, and the beam has changed.
C14_Witness ==
    /\ dpc = "done"
    /\ Cardinality(dremoved) >= 2
    /\ RemovedOrthonormal
    /\ \E i \in dremoved :
          Cardinality({rc \in GridCells : emode(dU, dprm, i)[rc] # 0}) >= 2
    /\ ~BeamUntouched

\* C18: remove_degen subtracts exactly the modes with index >= c, where c
\* is the smallest index whose share 100 * S_i / sum(S) is below the
\* threshold: a mode below c is never subtracted, and when remove_degen
\* returns every mode from c on has been.
C18_DeflatesFromCutoff ==
    /\ \A i \in dremoved : \E c \in ModesBelow : c <= i
    /\ dpc = "done" =>
          /\ ModesBelow # {}
          /\ dremoved = {i \in 0..(Len(dS) - 1) : \E c \in ModesBelow : c <= i}

\* remove_degen has returned with a cutoff that is neither the first mode
\* nor past the last: some mode was kept, some mode was subtracted and the
\* beam has changed.
C18_Witness ==
    /\ dpc = "done"
    /\ dremoved # {}
    /\ 0 \notin dremoved
    /\ ~BeamUntouched

----------------------------------------------------------------------------
\* The loop positions of construct_sys whose observed flux is not NaN.
NonNaNPositions ==
    UNION {{q \in AllPositions(pol) : ~isnan(ObsAt(q))} : pol \in PassesUsed}

\* C15: construct_sys stores one equation per sample: no equation emitted
\* takes the place of another, and when construct_sys returns the number of
\* stored equations is the number of (polarization, source, time, rotation,
\* flip) combinations whose observed flux is not NaN.
C15_OneEquationPerSample ==
    /\ pc # "fault" => Cardinality(SampleEqs(eqs)) = Cardinality(emitted)
    /\ pc = "built" => Cardinality(SampleEqs(eqs)) = Cardinality(NonNaNPositions)

\* The corners and weights get_weights returned for the call at position q.
WeightsAt(q) ==
    get_weights(cat.azalt[<<q.i, q.j>>], args.theta[q.pol + 1][q.ti],
                args.flip[q.pol + 1][q.fi])

\* C16: every write to a constant key that is already present carries the
\* weight the table holds for it, so no write changes a stored weight: the
\* weight of every corner of every _mk_eq call made so far is the value the
\* table has under that corner's key, also when two corners of one sample
\* fall on one pixel because the upper index was clamped.
C16_SameKeySameWeight ==
    \A e \in emitted : \A p \in Corners :
        e.eq[p].key \in DOMAIN consts =>
            consts[e.eq[p].key] = WeightsAt(e.pos).ws[p]

\* C17: solve() leaves the accumulated system as construct_sys returned it:
\* no step taken after construct_sys has returned changes the equations or
\* the constants, with or without the constraint option.
C17_SolveKeepsSystem ==
    [][(pc \in {"built", "solved"}) => (eqs' = eqs /\ consts' = consts)]_vars

\* The sources and the pixels the stored sample equations name.
SrcsInEqs == {k[p].I : k \in SampleEqs(eqs), p \in Corners}
PixelsInEqs == {k[p].b : k \in SampleEqs(eqs), p \in Corners}

\* C19: after the joint construct_sys the seed table has an entry for every
\* unknown touched and for no other: I<i> holds the catalog flux of source i
\* for every source with a non-NaN sample, b<pixel> holds the supplied beam
\* estimate at that pixel for every pixel named in an equation, and there
\* is no seed for a source or a pixel that no equation names.
C19_SeedsMatchUnknowns ==
    (pc = "built" /\ IsCat(cls)) =>
        /\ \A q \in NonNaNPositions :
              /\ <<"I", q.i>> \in DOMAIN sol_dict
              /\ \E r \in NonNaNPositions :
                    r.i = q.i /\ sol_dict[<<"I", q.i>>] = CatFluxAt(r)
        /\ \A px \in PixelsInEqs :
              /\ <<"b", px>> \in DOMAIN sol_dict
              /\ px \in Pixels
              /\ sol_dict[<<"b", px>>] = args.bvals.v[px]
        /\ \A u \in DOMAIN sol_dict :
              \/ u[1] = "I" /\ u[2] \in SrcsInEqs
              \/ u[1] = "b" /\ u[2] \in PixelsInEqs

\* C20: the joint construct_sys called without the bvals keyword completes,
\* and every beam pixel it touches is seeded with 0.
C20_BvalsDefaultZero ==
    (IsCat(cls) /\ ~args.bvals.given) =>
        /\ pc # "fault"
        /\ \A u \in DOMAIN sol_dict : u[1] = "b" => sol_dict[u] = 0
        /\ pc = "built" =>
              \A px \in PixelsInEqs :
                  <<"b", px>> \in DOMAIN sol_dict /\ sol_dict[<<"b", px>>] = 0

----------------------------------------------------------------------------
\* The unknowns an equation of the joint system names.
UnknownsOf(k) ==
    {<<"b", k[p].b>> : p \in DOMAIN k} \cup
    {<<"I", k[p].I>> : p \in {x \in DOMAIN k : k[x].kind = "w"}}

\* C21: every unknown named in an equation handed to the joint solver has
\* an initial guess in the seed table handed over with it, the centre pixel
\* of the constraint equation included, also when no sample touches the
\* centre pixel.
C21_EveryUnknownSeeded ==
    ls.kind = "LinProductSolver" =>
        \A k \in DOMAIN ls.eqs : UnknownsOf(k) \subseteq DOMAIN ls.sol0

\* C21, as the code has it: every unknown named in a sample equation handed
\* to the joint solver has an initial guess; the centre pixel named by the
\* constraint equation has one exactly when some sample equation names the
\* centre pixel, since build_solver adds the constraint without a seed.
C21_SampleUnknownsSeeded ==
    ls.kind = "LinProductSolver" =>
        /\ \A k \in SampleEqs(ls.eqs) : UnknownsOf(k) \subseteq DOMAIN ls.sol0
        /\ \A k \in ConstraintEqs(ls.eqs) :
              /\ UnknownsOf(k) = {<<"b", center_pix>>}
              /\ (<<"b", center_pix>> \in DOMAIN ls.sol0) <=>
                    (\E s \in SampleEqs(ls.eqs) : <<"b", center_pix>> \in UnknownsOf(s))

\* The joint solver was handed sample equations and the constraint, and no
\* sample equation names the centre pixel.
C21_Witness ==
    /\ pc = "solved"
    /\ ls.kind = "LinProductSolver"
    /\ SampleEqs(ls.eqs) # {}
    /\ ConstraintEqs(ls.eqs) # {}
    /\ \A s \in SampleEqs(ls.eqs) : <<"b", center_pix>> \notin UnknownsOf(s)

\* The sum of the weights the constant table holds under the keys of the
\* terms 1..n of equation k, as a numerator over Den * Den.
RECURSIVE StoredWeightSum(_, _)
StoredWeightSum(k, n) ==
    IF n = 0 THEN 0 ELSE consts[k[n].key] + StoredWeightSum(k, n - 1)

\* C22: the four terms of every emitted equation name four pairwise
\* distinct beam pixels, and the weights the constant table finally holds
\* under the keys of the four terms add up to one, also for a sample at the
\* grid edge where the upper index is clamped.
C22_DistinctPixelsUnitSum ==
    \A e \in emitted :
        (\A p \in Corners : e.eq[p].key \in DOMAIN consts) =>
            /\ \A p \in Corners, q \in Corners : p # q => e.eq[p].b # e.eq[q].b
            /\ StoredWeightSum(e.eq, 4) = Den * Den

----------------------------------------------------------------------------
\* C23: the loop of subtract_sources runs its body fewer than maxiter
\* times, because the counter compared with maxiter advances on every
\* pass: after n passes it stands at 1 + n.
C23_LoopBounded ==
    spc \in {"loop", "done"} =>
        /\ passes < maxiter
        /\ iter_num = 1 + passes

====
